---- MODULE Spec2Model ----
(***************************************************************************)
(* A model of the journy command-line client: the API Mediator of          *)
(* src/src/api.js (request construction, dispatch, error classification)   *)
(* and the command handlers of src/src/index.js that call it.              *)
(*                                                                         *)
(* Spec     one process run per command: the handler runs up to its await, *)
(*          the remote endpoint answers, the handler's continuation        *)
(*          renders or reports and the process ends.                       *)
(* SpecApi  the exported operations of api.js called directly, with every  *)
(*          argument (also an omitted one) the signature allows.           *)
(***************************************************************************)
EXTENDS Integers, Sequences, FiniteSets, TLC

VARIABLES
    store,      \* the Configuration Store: [apiKey |-> ...]
    pc,         \* "idle" | "waiting" (request in flight) | "returned" | "done"
    cmd,        \* the command line of the current run (NoCmd for a direct call)
    call,       \* the Mediator operation of the current run and its arguments
    wire,       \* the requests handed to axios in the current run, in order
    reply,      \* how axios settled the request: a 2xx response or an error
    result,     \* the Operation Result of the Mediator call
    exitCode,   \* -1 while the process runs, then its exit status
    stderr,     \* what printError wrote in the current run
    stdout      \* what the run wrote to stdout

vars == <<store, pc, cmd, call, wire, reply, result, exitCode, stderr, stdout>>

(***************************************************************************)
(* Bounds of the model.                                                    *)
(***************************************************************************)
\* The longest <userIds...> list a run is given.
MaxUserIds == 102

(***************************************************************************)
(* JavaScript values.                                                      *)
(***************************************************************************)
\* An omitted argument or option.
Undefined == "<undefined>"

\* if (x) on a string or undefined.
Truthy(s) == s # Undefined /\ s # ""

\* A JSON value: its type, what Object.keys() returns for it, and its text.
JValue(type, keys, text) == [type |-> type, keys |-> keys, text |-> text]

JUndefined == JValue("undefined", <<>>, "")
JEmptyObject == JValue("object", <<>>, "{}")

\* A thrown exception or a returned value.
Throw(m) == [threw |-> TRUE, message |-> m, value |-> JUndefined]
Return(v) == [threw |-> FALSE, message |-> "", value |-> v]

\* obj[k] = v on an object literal.
Put(obj, k, v) == [f \in (DOMAIN obj) \cup {k} |-> IF f = k THEN v ELSE obj[f]]

\* {}
EmptyObject == [f \in {} |-> Undefined]

\* JSON.parse on the option texts the model passes.
JSONParse(text) ==
    CASE text = "{}" -> Return(JEmptyObject)
      [] text = "{\"plan\":\"Pro\"}" -> Return(JValue("object", <<"plan">>, text))
      [] text = "null" -> Return(JValue("null", <<>>, text))
      [] text = "[1]" -> Return(JValue("array", <<"0">>, text))
      [] text = "\"ab\"" -> Return(JValue("string", <<"0", "1">>, text))
      [] text = "5" -> Return(JValue("number", <<>>, text))
      [] OTHER -> Throw("SyntaxError: Unexpected token in JSON")

\* Object.keys(v): a TypeError on null and undefined.
ObjectKeys(v) ==
    IF v.type \in {"null", "undefined"}
    THEN [threw |-> TRUE, message |-> "Cannot convert undefined or null to object", keys |-> <<>>]
    ELSE [threw |-> FALSE, message |-> "", keys |-> v.keys]

(***************************************************************************)
(* Configuration Store (config.js).                                        *)
(***************************************************************************)
getConfig(key) == store[key]

setConfig(key, value) == [store EXCEPT ![key] = value]

isConfigured == Truthy(getConfig("apiKey"))

(***************************************************************************)
(* api.js: request().                                                      *)
(***************************************************************************)
BASE_URL == "https://api.journy.io"

\* The outcome of a Mediator call up to its await: a request handed to axios,
\* or a rejection with no request.
Dispatched(config) == [sent |-> TRUE, config |-> config, message |-> ""]
Rejected(m) == [sent |-> FALSE, config |-> EmptyObject, message |-> m]

\* What axios rejects with, or what getHeaders throws: error.message,
\* error.response?.status and error.response?.data?.message.
ErrorOf(message, hasResponse, status, bodyMessage) ==
    [message |-> message, hasResponse |-> hasResponse, status |-> status,
     bodyMessage |-> bodyMessage]

\* A variant that does not check the key.
getHeadersUnchecked ==
    [threw |-> FALSE, message |-> "",
     headers |-> ("X-Api-Key" :> getConfig("apiKey")) @@
                 ("Content-Type" :> "application/json")]

getHeaders ==
    LET apiKey == getConfig("apiKey") IN
    IF ~Truthy(apiKey)
    THEN [threw |-> TRUE,
          message |-> "API key not configured. Run: journy config set --api-key YOUR_KEY",
          headers |-> EmptyObject]
    ELSE [threw |-> FALSE, message |-> "",
          headers |-> ("X-Api-Key" :> apiKey) @@ ("Content-Type" :> "application/json")]

\* A variant whose last branch drops the underlying message.
requestCatchNoCause(error) ==
    IF error.hasResponse /\ Truthy(error.bodyMessage)
    THEN "API Error: " \o error.bodyMessage
    ELSE IF error.hasResponse /\ error.status = 401
    THEN "Unauthorized: Invalid API key"
    ELSE IF error.hasResponse /\ error.status = 429
    THEN "Rate limit exceeded (1800 requests/min)"
    ELSE "Request failed"

\* The catch block of request(): the message of the Error it throws.
requestCatch(error) ==
    IF error.hasResponse /\ Truthy(error.bodyMessage)
    THEN "API Error: " \o error.bodyMessage
    ELSE IF error.hasResponse /\ error.status = 401
    THEN "Unauthorized: Invalid API key"
    ELSE IF error.hasResponse /\ error.status = 429
    THEN "Rate limit exceeded (1800 requests/min)"
    ELSE "Request failed: " \o error.message

\* null, as request()'s default for data.
NullData == [null |-> TRUE]

\* request() up to "await axios(config)".
request(method, endpoint, data) ==
    LET h == getHeaders
        config == [method |-> method, url |-> BASE_URL \o endpoint, headers |-> h.headers]
    IN  IF h.threw
        THEN Rejected(requestCatch(ErrorOf(h.message, FALSE, 0, Undefined)))
        ELSE Dispatched(IF data # NullData THEN Put(config, "data", data) ELSE config)

(***************************************************************************)
(* api.js: the fifteen exported operations, each up to its await.          *)
(***************************************************************************)
\* A variant that sets the second identifying field unconditionally.
upsertIdentificationAlways(idKey, id, otherKey, other) ==
    Put(Put(EmptyObject, idKey, id), otherKey, other)

\* { identification: { <idKey>: id } }, plus the second identifying field
\* when it is truthy.
upsertIdentification(idKey, id, otherKey, other) ==
    LET identification == Put(EmptyObject, idKey, id) IN
    IF Truthy(other) THEN Put(identification, otherKey, other) ELSE identification

\* properties = {} as a default parameter: it replaces undefined only.
defaultProperties(properties) ==
    IF properties = JUndefined THEN JEmptyObject ELSE properties

\* A variant that puts the email beside identification, not inside it.
upsertUserFlat(userId, email, properties0) ==
    LET properties == defaultProperties(properties0)
        d0 == [identification |-> [userId |-> userId]]
        data == IF Truthy(email) THEN Put(d0, "email", email) ELSE d0
        k == ObjectKeys(properties)
    IN  IF k.threw THEN Rejected(k.message)
        ELSE request("POST", "/users/upsert",
                     IF Len(k.keys) > 0 THEN Put(data, "properties", properties) ELSE data)

upsertUser(userId, email, properties0) ==
    LET properties == defaultProperties(properties0)
        data == [identification |-> upsertIdentification("userId", userId, "email", email)]
        k == ObjectKeys(properties)
    IN  IF k.threw THEN Rejected(k.message)
        ELSE request("POST", "/users/upsert",
                     IF Len(k.keys) > 0 THEN Put(data, "properties", properties) ELSE data)

\* const identification = {}; each field is set only when it is truthy.
deleteIdentification(idKey, id, otherKey, other) ==
    LET i1 == IF Truthy(id) THEN Put(EmptyObject, idKey, id) ELSE EmptyObject IN
    IF Truthy(other) THEN Put(i1, otherKey, other) ELSE i1

\* A variant that posts the deletion.
deleteUserViaPost(userId, email) ==
    request("POST", "/users/delete",
            [identification |-> deleteIdentification("userId", userId, "email", email)])

deleteUser(userId, email) ==
    request("DELETE", "/users",
            [identification |-> deleteIdentification("userId", userId, "email", email)])

upsertAccount(accountId, domain, properties0) ==
    LET properties == defaultProperties(properties0)
        data == [identification |->
                    upsertIdentification("accountId", accountId, "domain", domain)]
        k == ObjectKeys(properties)
    IN  IF k.threw THEN Rejected(k.message)
        ELSE request("POST", "/accounts/upsert",
                     IF Len(k.keys) > 0 THEN Put(data, "properties", properties) ELSE data)

deleteAccount(accountId, domain) ==
    request("DELETE", "/accounts",
            [identification |->
                deleteIdentification("accountId", accountId, "domain", domain)])

\* userIds.map(userId => ({ identification: { userId } }))
usersOf(userIds) ==
    [i \in 1..Len(userIds) |-> [identification |-> [userId |-> userIds[i]]]]

addUsersToAccount(accountId, userIds) ==
    request("POST", "/accounts/users/add",
            [identification |-> [accountId |-> accountId], users |-> usersOf(userIds)])

removeUsersFromAccount(accountId, userIds) ==
    request("POST", "/accounts/users/remove",
            [identification |-> [accountId |-> accountId], users |-> usersOf(userIds)])

trackEvent(eventName, userId, accountId, metadata0) ==
    LET metadata == defaultProperties(metadata0)
        d0 == [name |-> eventName]
        d1 == IF Truthy(userId) THEN Put(d0, "userId", userId) ELSE d0
        d2 == IF Truthy(accountId) THEN Put(d1, "accountId", accountId) ELSE d1
        k == ObjectKeys(metadata)
    IN  IF k.threw THEN Rejected(k.message)
        ELSE request("POST", "/track",
                     IF Len(k.keys) > 0 THEN Put(d2, "metadata", metadata) ELSE d2)

getEvents == request("GET", "/events", NullData)

getUserProperties == request("GET", "/properties/users", NullData)

getAccountProperties == request("GET", "/properties/accounts", NullData)

getUserSegments == request("GET", "/segments/users", NullData)

getAccountSegments == request("GET", "/segments/accounts", NullData)

linkUserToAccount(userId, accountId) ==
    request("POST", "/link",
            [user |-> [identification |-> [userId |-> userId]],
             account |-> [identification |-> [accountId |-> accountId]]])

validateApiKey == request("GET", "/validate", NullData)

getTrackingSnippet == request("GET", "/tracking/snippet", NullData)

\* The names api.js exports.
Operations ==
    {"upsertUser", "deleteUser", "upsertAccount", "deleteAccount",
     "addUsersToAccount", "removeUsersFromAccount", "trackEvent", "getEvents",
     "getUserProperties", "getAccountProperties", "getUserSegments",
     "getAccountSegments", "linkUserToAccount", "validateApiKey",
     "getTrackingSnippet"}

\* A call of an exported operation: its name and its arguments (those the
\* operation does not take are Undefined).
Call(op, userId, email, accountId, domain, properties, userIds, eventName) ==
    [op |-> op, userId |-> userId, email |-> email, accountId |-> accountId,
     domain |-> domain, properties |-> properties, userIds |-> userIds,
     eventName |-> eventName]

NoCall == Call("none", Undefined, Undefined, Undefined, Undefined, JUndefined, <<>>, Undefined)

\* The call a, run up to its await.
Mediator(a) ==
    CASE a.op = "upsertUser" -> upsertUser(a.userId, a.email, a.properties)
      [] a.op = "deleteUser" -> deleteUser(a.userId, a.email)
      [] a.op = "upsertAccount" -> upsertAccount(a.accountId, a.domain, a.properties)
      [] a.op = "deleteAccount" -> deleteAccount(a.accountId, a.domain)
      [] a.op = "addUsersToAccount" -> addUsersToAccount(a.accountId, a.userIds)
      [] a.op = "removeUsersFromAccount" -> removeUsersFromAccount(a.accountId, a.userIds)
      [] a.op = "trackEvent" -> trackEvent(a.eventName, a.userId, a.accountId, a.properties)
      [] a.op = "getEvents" -> getEvents
      [] a.op = "getUserProperties" -> getUserProperties
      [] a.op = "getAccountProperties" -> getAccountProperties
      [] a.op = "getUserSegments" -> getUserSegments
      [] a.op = "getAccountSegments" -> getAccountSegments
      [] a.op = "linkUserToAccount" -> linkUserToAccount(a.userId, a.accountId)
      [] a.op = "validateApiKey" -> validateApiKey
      [] a.op = "getTrackingSnippet" -> getTrackingSnippet

(***************************************************************************)
(* The remote endpoint, as axios reports it.                               *)
(***************************************************************************)
\* The statuses the README's Error Handling section lists.
ErrorStatuses == {400, 401, 403, 429, 500}

\* The message field of an error body: absent, empty, or a text.
BodyMessages == {Undefined, "", "Validation failed"}

\* A rejection of axios(config): no response at all, or a non-2xx response.
AxiosErrors ==
    {ErrorOf("Network Error", FALSE, 0, Undefined)} \cup
    {ErrorOf("Request failed with status code " \o ToString(st), TRUE, st, m) :
        st \in ErrorStatuses, m \in BodyMessages}

Meta == [requestId |-> "req-1", status |-> "ok"]

ListOperations ==
    {"getEvents", "getUserProperties", "getAccountProperties", "getUserSegments",
     "getAccountSegments"}

\* response.data of a 2xx answer: an object with the request's meta and, for
\* the reads, the data the README's jq examples select (a list; the snippet).
\* The payload is always an object, so the handlers' reads of data.meta and
\* data.data while rendering do not throw.
Payloads(op) ==
    IF op \in ListOperations
    THEN {[meta |-> Meta], [meta |-> Meta, data |-> <<>>],
          [meta |-> Meta, data |-> <<[id |-> "s1", name |-> "signed_in"]>>]}
    ELSE IF op = "getTrackingSnippet"
    THEN {[meta |-> Meta], [meta |-> Meta, data |-> EmptyObject],
          [meta |-> Meta, data |-> [snippet |-> "<script>"]]}
    ELSE {[meta |-> Meta], [data |-> EmptyObject]}

\* How axios settled: not yet, with a 2xx response, or with an error.
NoReply == [kind |-> "none", error |-> ErrorOf("", FALSE, 0, Undefined)]
Resolved == [kind |-> "response", error |-> ErrorOf("", TRUE, 200, Undefined)]
RejectedWith(error) == [kind |-> "error", error |-> error]

\* The Operation Result of a Mediator call.
NoResult == [kind |-> "none", data |-> EmptyObject, message |-> ""]
Success(data) == [kind |-> "success", data |-> data, message |-> ""]
Failure(m) == [kind |-> "failure", data |-> EmptyObject, message |-> m]

(***************************************************************************)
(* Direct calls of the exported operations.                                *)
(***************************************************************************)
UserIdArgs == {Undefined, "", "u1"}
AccountIdArgs == {Undefined, "", "a1"}
EmailArgs == {Undefined, "", "a@b.com"}
DomainArgs == {Undefined, "", "acme.com"}

\* The values JSON.parse gives for the option texts, and undefined.
PropertiesArgs ==
    {JUndefined} \cup
    {JSONParse(t).value : t \in {"{}", "{\"plan\":\"Pro\"}", "null", "[1]", "\"ab\"", "5"}}

\* user ids u1, u2, ..., un.
UserIdList(n) == [i \in 1..n |-> "u" \o ToString(i)]

NoCmd == [name |-> "none", userId |-> Undefined, accountId |-> Undefined,
          eventName |-> Undefined, email |-> Undefined, domain |-> Undefined,
          properties |-> Undefined, userIds |-> <<>>, json |-> FALSE,
          apiKey |-> Undefined]

ApiCalls ==
    {Call("upsertUser", u, e, Undefined, Undefined, p, <<>>, Undefined) :
        u \in UserIdArgs, e \in EmailArgs, p \in PropertiesArgs} \cup
    {Call("deleteUser", u, e, Undefined, Undefined, JUndefined, <<>>, Undefined) :
        u \in UserIdArgs, e \in EmailArgs} \cup
    {Call("upsertAccount", Undefined, Undefined, a, d, p, <<>>, Undefined) :
        a \in AccountIdArgs, d \in DomainArgs, p \in PropertiesArgs} \cup
    {Call("deleteAccount", Undefined, Undefined, a, d, JUndefined, <<>>, Undefined) :
        a \in AccountIdArgs, d \in DomainArgs} \cup
    {Call(op, Undefined, Undefined, a, Undefined, JUndefined, UserIdList(n), Undefined) :
        op \in {"addUsersToAccount", "removeUsersFromAccount"},
        a \in AccountIdArgs \ {Undefined}, n \in 0..MaxUserIds} \cup
    {Call("trackEvent", u, Undefined, a, Undefined, p, <<>>, "signed_in") :
        u \in UserIdArgs, a \in AccountIdArgs, p \in PropertiesArgs} \cup
    {Call("linkUserToAccount", u, Undefined, a, Undefined, JUndefined, <<>>, Undefined) :
        u \in UserIdArgs, a \in AccountIdArgs} \cup
    {Call(op, Undefined, Undefined, Undefined, Undefined, JUndefined, <<>>, Undefined) :
        op \in ListOperations \cup {"validateApiKey", "getTrackingSnippet"}}

\* What a run wrote to stdout: nothing, the payload as JSON (printJson), the
\* formatted text of the command, or requireAuth's instructions.
Output(kind, payload, line) == [kind |-> kind, payload |-> payload, line |-> line]

NoOutput == Output("none", EmptyObject, "")

printJson(data) == Output("json", data, "")

printText(line) == Output("text", EmptyObject, line)

\* The process starts with whatever the Configuration Store holds.
Init ==
    /\ store \in {[apiKey |-> Undefined], [apiKey |-> "key-1"]}
    /\ pc = "idle"
    /\ cmd = NoCmd
    /\ call = NoCall
    /\ wire = <<>>
    /\ reply = NoReply
    /\ result = NoResult
    /\ exitCode = -1
    /\ stderr = <<>>
    /\ stdout = NoOutput

\* The call a up to its await: the request is handed to axios, or the call
\* is rejected with no request.
Await(a) ==
    LET step == Mediator(a) IN
    /\ call' = a
    /\ reply' = NoReply
    /\ IF step.sent
       THEN /\ wire' = <<step.config>>
            /\ result' = NoResult
            /\ pc' = "waiting"
       ELSE /\ wire' = <<>>
            /\ result' = Failure(step.message)
            /\ pc' = "returned"

\* A caller calls an exported operation.
ApiCall ==
    /\ pc = "idle"
    /\ \E a \in ApiCalls : Await(a)
    /\ UNCHANGED <<store, cmd, exitCode, stderr, stdout>>

\* A variant that sends the request again when it fails.
RespondRetrying ==
    /\ pc = "waiting"
    /\ \/ \E data \in Payloads(call.op) :
            /\ reply' = Resolved
            /\ result' = Success(data)
            /\ pc' = "returned"
            /\ wire' = wire
       \/ \E error \in AxiosErrors :
            /\ reply' = RejectedWith(error)
            /\ result' = NoResult
            /\ pc' = "waiting"
            /\ wire' = IF Len(wire) < 3 THEN Append(wire, wire[1]) ELSE wire
    /\ UNCHANGED <<store, cmd, call, exitCode, stderr, stdout>>

\* axios settles: "return response.data", or the catch block's throw.
Respond ==
    /\ pc = "waiting"
    /\ \/ \E data \in Payloads(call.op) :
            /\ reply' = Resolved
            /\ result' = Success(data)
       \/ \E error \in AxiosErrors :
            /\ reply' = RejectedWith(error)
            /\ result' = Failure(requestCatch(error))
    /\ pc' = "returned"
    /\ UNCHANGED <<store, cmd, call, wire, exitCode, stderr, stdout>>

NextApi == ApiCall \/ Respond

SpecApi == Init /\ [][NextApi]_vars

(***************************************************************************)
(* index.js: helpers.                                                      *)
(***************************************************************************)
\* A variant that takes a text JSON.parse rejects for no properties.
parsePropertiesLenient(propertiesStr) ==
    IF ~Truthy(propertiesStr)
    THEN Return(JEmptyObject)
    ELSE LET parsed == JSONParse(propertiesStr) IN
         IF parsed.threw THEN Return(JEmptyObject) ELSE parsed

\* parseProperties(propertiesStr)
parseProperties(propertiesStr) ==
    IF ~Truthy(propertiesStr)
    THEN Return(JEmptyObject)
    ELSE LET parsed == JSONParse(propertiesStr) IN
         IF parsed.threw
         THEN Throw("Properties must be valid JSON. Example: '{\"name\":\"John\",\"plan\":\"Pro\"}'")
         ELSE parsed

\* A command line: the command, its arguments and its options (those the
\* command does not take are Undefined).
Cmd(name, userId, accountId, eventName, email, domain, properties, userIds, json) ==
    [name |-> name, userId |-> userId, accountId |-> accountId,
     eventName |-> eventName, email |-> email, domain |-> domain,
     properties |-> properties, userIds |-> userIds, json |-> json,
     apiKey |-> Undefined]

\* The process ends before any Mediator call: printError(message) and
\* process.exit(code), or the handler returns.
Exit(c, message, out, code) ==
    /\ cmd' = c
    /\ call' = NoCall
    /\ wire' = <<>>
    /\ reply' = NoReply
    /\ result' = NoResult
    /\ stderr' = IF message = Undefined THEN <<>> ELSE <<message>>
    /\ stdout' = out
    /\ exitCode' = code
    /\ pc' = "done"

\* requireAuth() when isConfigured() is false.
requireAuthExit(c) ==
    Exit(c, "API key not configured.",
         Output("help", EmptyObject, "journy config set --api-key YOUR_API_KEY"), 1)

\* The handler's catch block: printError(error.message); process.exit(1).
Caught(c, message) == Exit(c, message, NoOutput, 1)

\* await withSpinner(..., () => operation(...)): the handler suspends on the
\* Mediator call a.
Called(c, a) ==
    /\ cmd' = c
    /\ Await(a)
    /\ UNCHANGED <<exitCode, stderr, stdout>>

(***************************************************************************)
(* index.js: the arguments and options a command line can carry.           *)
(***************************************************************************)
\* A required argument: present, possibly the empty string.
UserIds == {"", "u1"}
AccountIds == {"", "a1"}
EventNames == {"signed_in"}

\* An option: omitted, empty, or a value.
UserIdOptions == {Undefined, "", "u1"}
AccountIdOptions == {Undefined, "", "a1"}
EmailOptions == {Undefined, "", "a@b.com"}
DomainOptions == {Undefined, "", "acme.com"}
ApiKeyOptions == {Undefined, "", "key-1", "key-2"}

\* --properties / --metadata: omitted, empty, malformed, an object, and JSON
\* that is no object.
PropertiesOptions ==
    {Undefined, "", "{bad", "{}", "{\"plan\":\"Pro\"}", "null", "[1]", "\"ab\"", "5"}

\* Maximum 100 users can be added (removed) at once.
MaxUsers == 100

(***************************************************************************)
(* index.js: the command handlers, each up to its await.                   *)
(***************************************************************************)
\* The commands declared with .option('--json', ...): all but config set and
\* config show.
declaresJson(name) == name \notin {"config set", "config show"}

\* commander, given an option the command does not declare: it reports the
\* option and exits with status 1 before the action runs.
unknownOptionExit(c) == Exit(c, "error: unknown option '--json'", NoOutput, 1)

\* A variant that stores whatever --api-key holds, also nothing.
ConfigSetAlwaysWrites ==
    /\ pc = "idle"
    /\ \E key \in ApiKeyOptions, json \in BOOLEAN :
        LET c == [NoCmd EXCEPT !.name = "config set", !.apiKey = key, !.json = json] IN
        IF json /\ ~declaresJson("config set")
        THEN /\ UNCHANGED store
             /\ unknownOptionExit(c)
        ELSE /\ store' = setConfig("apiKey", key)
             /\ Exit(c, Undefined, printText("API key set"), 0)

ConfigSet ==
    /\ pc = "idle"
    /\ \E key \in ApiKeyOptions, json \in BOOLEAN :
        LET c == [NoCmd EXCEPT !.name = "config set", !.apiKey = key, !.json = json] IN
        IF json /\ ~declaresJson("config set")
        THEN /\ UNCHANGED store
             /\ unknownOptionExit(c)
        ELSE IF Truthy(key)
        THEN /\ store' = setConfig("apiKey", key)
             /\ Exit(c, Undefined, printText("API key set"), 0)
        ELSE /\ UNCHANGED store
             /\ Exit(c, "No options provided. Use --api-key", NoOutput, 0)

ConfigShow ==
    /\ pc = "idle"
    /\ \E json \in BOOLEAN :
        LET apiKey == getConfig("apiKey")
            c == [NoCmd EXCEPT !.name = "config show", !.json = json]
        IN  IF json /\ ~declaresJson("config show")
            THEN unknownOptionExit(c)
            ELSE Exit(c, Undefined,
                      printText(IF Truthy(apiKey) THEN "API Key: set"
                                ELSE "API Key: not set"), 0)
    /\ UNCHANGED store

UserUpsert ==
    /\ pc = "idle"
    /\ \E userId \in UserIds, email \in EmailOptions,
          properties \in PropertiesOptions, json \in BOOLEAN :
        LET c == Cmd("user upsert", userId, Undefined, Undefined, email, Undefined,
                     properties, <<>>, json)
            parsed == parseProperties(properties)
        IN  IF ~isConfigured THEN requireAuthExit(c)
            ELSE IF parsed.threw THEN Caught(c, parsed.message)
            ELSE Called(c, Call("upsertUser", userId, email, Undefined, Undefined,
                                parsed.value, <<>>, Undefined))
    /\ UNCHANGED store

UserDelete ==
    /\ pc = "idle"
    /\ \E userId \in UserIds, email \in EmailOptions, json \in BOOLEAN :
        LET c == Cmd("user delete", userId, Undefined, Undefined, email, Undefined,
                     Undefined, <<>>, json)
        IN  IF ~isConfigured THEN requireAuthExit(c)
            ELSE Called(c, Call("deleteUser", userId, email, Undefined, Undefined,
                                JUndefined, <<>>, Undefined))
    /\ UNCHANGED store

AccountUpsert ==
    /\ pc = "idle"
    /\ \E accountId \in AccountIds, domain \in DomainOptions,
          properties \in PropertiesOptions, json \in BOOLEAN :
        LET c == Cmd("account upsert", Undefined, accountId, Undefined, Undefined,
                     domain, properties, <<>>, json)
            parsed == parseProperties(properties)
        IN  IF ~isConfigured THEN requireAuthExit(c)
            ELSE IF parsed.threw THEN Caught(c, parsed.message)
            ELSE Called(c, Call("upsertAccount", Undefined, Undefined, accountId, domain,
                                parsed.value, <<>>, Undefined))
    /\ UNCHANGED store

AccountDelete ==
    /\ pc = "idle"
    /\ \E accountId \in AccountIds, domain \in DomainOptions, json \in BOOLEAN :
        LET c == Cmd("account delete", Undefined, accountId, Undefined, Undefined,
                     domain, Undefined, <<>>, json)
        IN  IF ~isConfigured THEN requireAuthExit(c)
            ELSE Called(c, Call("deleteAccount", Undefined, Undefined, accountId, domain,
                                JUndefined, <<>>, Undefined))
    /\ UNCHANGED store

\* A variant that is off by one.
tooManyUsersOffByOne(userIds) == Len(userIds) > MaxUsers + 1

\* userIds.length > 100
tooManyUsers(userIds) == Len(userIds) > MaxUsers

AccountAddUsers ==
    /\ pc = "idle"
    /\ \E accountId \in AccountIds, n \in 1..MaxUserIds, json \in BOOLEAN :
        LET userIds == UserIdList(n)
            c == Cmd("account add-users", Undefined, accountId, Undefined, Undefined,
                     Undefined, Undefined, userIds, json)
        IN  IF ~isConfigured THEN requireAuthExit(c)
            ELSE IF tooManyUsers(userIds)
            THEN Exit(c, "Maximum 100 users can be added at once", NoOutput, 1)
            ELSE Called(c, Call("addUsersToAccount", Undefined, Undefined, accountId,
                                Undefined, JUndefined, userIds, Undefined))
    /\ UNCHANGED store

AccountRemoveUsers ==
    /\ pc = "idle"
    /\ \E accountId \in AccountIds, n \in 1..MaxUserIds, json \in BOOLEAN :
        LET userIds == UserIdList(n)
            c == Cmd("account remove-users", Undefined, accountId, Undefined, Undefined,
                     Undefined, Undefined, userIds, json)
        IN  IF ~isConfigured THEN requireAuthExit(c)
            ELSE IF tooManyUsers(userIds)
            THEN Exit(c, "Maximum 100 users can be removed at once", NoOutput, 1)
            ELSE Called(c, Call("removeUsersFromAccount", Undefined, Undefined, accountId,
                                Undefined, JUndefined, userIds, Undefined))
    /\ UNCHANGED store

\* A variant that looks only for omitted options, not for empty ones.
missingIdentifierStrict(userId, accountId) ==
    userId = Undefined /\ accountId = Undefined

\* !options.userId && !options.accountId
missingIdentifier(userId, accountId) == ~Truthy(userId) /\ ~Truthy(accountId)

\* A variant that checks the identifiers before the credential.
EventTrackIdentifierFirst ==
    /\ pc = "idle"
    /\ \E eventName \in EventNames, userId \in UserIdOptions,
          accountId \in AccountIdOptions, metadata \in PropertiesOptions,
          json \in BOOLEAN :
        LET c == Cmd("event track", userId, accountId, eventName, Undefined, Undefined,
                     metadata, <<>>, json)
            parsed == parseProperties(metadata)
        IN  IF missingIdentifier(userId, accountId)
            THEN Exit(c, "Either --user-id or --account-id (or both) must be provided",
                      NoOutput, 1)
            ELSE IF ~isConfigured THEN requireAuthExit(c)
            ELSE IF parsed.threw THEN Caught(c, parsed.message)
            ELSE Called(c, Call("trackEvent", userId, Undefined, accountId, Undefined,
                                parsed.value, <<>>, eventName))
    /\ UNCHANGED store

EventTrack ==
    /\ pc = "idle"
    /\ \E eventName \in EventNames, userId \in UserIdOptions,
          accountId \in AccountIdOptions, metadata \in PropertiesOptions,
          json \in BOOLEAN :
        LET c == Cmd("event track", userId, accountId, eventName, Undefined, Undefined,
                     metadata, <<>>, json)
            parsed == parseProperties(metadata)
        IN  IF ~isConfigured THEN requireAuthExit(c)
            ELSE IF missingIdentifier(userId, accountId)
            THEN Exit(c, "Either --user-id or --account-id (or both) must be provided",
                      NoOutput, 1)
            ELSE IF parsed.threw THEN Caught(c, parsed.message)
            ELSE Called(c, Call("trackEvent", userId, Undefined, accountId, Undefined,
                                parsed.value, <<>>, eventName))
    /\ UNCHANGED store

\* The handlers of the commands that take only --json.
ReadCommand(name, op) ==
    /\ pc = "idle"
    /\ \E json \in BOOLEAN :
        LET c == [NoCmd EXCEPT !.name = name, !.json = json] IN
        IF ~isConfigured THEN requireAuthExit(c)
        ELSE Called(c, Call(op, Undefined, Undefined, Undefined, Undefined, JUndefined,
                            <<>>, Undefined))
    /\ UNCHANGED store

EventList == ReadCommand("event list", "getEvents")

PropertiesUsers == ReadCommand("properties users", "getUserProperties")

PropertiesAccounts == ReadCommand("properties accounts", "getAccountProperties")

SegmentsUsers == ReadCommand("segments users", "getUserSegments")

SegmentsAccounts == ReadCommand("segments accounts", "getAccountSegments")

Link ==
    /\ pc = "idle"
    /\ \E userId \in UserIds, accountId \in AccountIds, json \in BOOLEAN :
        LET c == Cmd("link", userId, accountId, Undefined, Undefined, Undefined,
                     Undefined, <<>>, json)
        IN  IF ~isConfigured THEN requireAuthExit(c)
            ELSE Called(c, Call("linkUserToAccount", userId, Undefined, accountId,
                                Undefined, JUndefined, <<>>, Undefined))
    /\ UNCHANGED store

Validate == ReadCommand("validate", "validateApiKey")

Snippet == ReadCommand("snippet", "getTrackingSnippet")

(***************************************************************************)
(* index.js: the handlers after their await.                               *)
(***************************************************************************)
\* data.data of a list command: absent or empty, or the rows of the table.
RenderList(data, none) ==
    IF "data" \notin DOMAIN data \/ Len(data.data) = 0
    THEN none
    ELSE ToString(Len(data.data)) \o " result(s)"

\* The formatted output of command c for the payload data.
Render(c, data) ==
    CASE c.name = "user upsert" -> "User " \o c.userId \o " upserted successfully"
      [] c.name = "user delete" -> "User " \o c.userId \o " deleted successfully"
      [] c.name = "account upsert" ->
            "Account " \o c.accountId \o " upserted successfully"
      [] c.name = "account delete" ->
            "Account " \o c.accountId \o " deleted successfully"
      [] c.name = "account add-users" ->
            "Added " \o ToString(Len(c.userIds)) \o " user(s) to account " \o c.accountId
      [] c.name = "account remove-users" ->
            "Removed " \o ToString(Len(c.userIds)) \o " user(s) from account "
                \o c.accountId
      [] c.name = "event track" -> "Event \"" \o c.eventName \o "\" tracked successfully"
      [] c.name = "event list" -> RenderList(data, "No events found.")
      [] c.name = "properties users" -> RenderList(data, "No user properties found.")
      [] c.name = "properties accounts" ->
            RenderList(data, "No account properties found.")
      [] c.name = "segments users" -> RenderList(data, "No user segments found.")
      [] c.name = "segments accounts" -> RenderList(data, "No account segments found.")
      [] c.name = "link" ->
            "User " \o c.userId \o " linked to account " \o c.accountId
      [] c.name = "validate" -> "API key is valid"
      [] c.name = "snippet" ->
            IF "data" \in DOMAIN data /\ "snippet" \in DOMAIN data.data
            THEN data.data.snippet
            ELSE "No snippet found"

\* A variant whose catch block does not exit.
exitStatusZero(r) == 0

\* The exit status after the await: process.exit(1) in the catch block, 0 when
\* the handler returns.
exitStatus(r) == IF r.kind = "failure" THEN 1 ELSE 0

\* The Mediator call settled: the handler prints the payload (as JSON or
\* formatted) and returns, or its catch block reports the error and exits.
Complete ==
    /\ pc = "returned"
    /\ cmd.name # "none"
    /\ IF result.kind = "failure"
       THEN /\ stderr' = <<result.message>>
            /\ stdout' = NoOutput
       ELSE /\ stderr' = <<>>
            /\ stdout' = IF cmd.json THEN printJson(result.data)
                         ELSE printText(Render(cmd, result.data))
    /\ exitCode' = exitStatus(result)
    /\ pc' = "done"
    /\ UNCHANGED <<store, cmd, call, wire, reply, result>>

\* The process is gone; the next command line starts a new one, which finds
\* the Configuration Store as the last one left it.
NewProcess ==
    /\ pc = "done"
    /\ pc' = "idle"
    /\ cmd' = NoCmd
    /\ call' = NoCall
    /\ wire' = <<>>
    /\ reply' = NoReply
    /\ result' = NoResult
    /\ exitCode' = -1
    /\ stderr' = <<>>
    /\ stdout' = NoOutput
    /\ UNCHANGED store

Next ==
    \/ ConfigSet
    \/ ConfigShow
    \/ UserUpsert
    \/ UserDelete
    \/ AccountUpsert
    \/ AccountDelete
    \/ AccountAddUsers
    \/ AccountRemoveUsers
    \/ EventTrack
    \/ EventList
    \/ PropertiesUsers
    \/ PropertiesAccounts
    \/ SegmentsUsers
    \/ SegmentsAccounts
    \/ Link
    \/ Validate
    \/ Snippet
    \/ Respond
    \/ Complete
    \/ NewProcess

Spec == Init /\ [][Next]_vars

(***************************************************************************)
(* Properties.                                                             *)
(***************************************************************************)
\* The Mediator call of the current run has settled.
Settled == pc \in {"returned", "done"}

\* The request of the current run was answered with HTTP status st.
AnsweredWith(st) ==
    /\ Settled
    /\ reply.kind = "error"
    /\ reply.error.hasResponse
    /\ reply.error.status = st

\* C1: a failed response with HTTP status 401 is classified as
\* UnauthorizedError ('Unauthorized: Invalid API key'), also when the response
\* body carries a message field.
C1_Unauthorized401 ==
    AnsweredWith(401) => result = Failure("Unauthorized: Invalid API key")

\* C2: a failed response with HTTP status 429 is classified as
\* RateLimitedError (the 1800 requests/min message), whatever the response
\* body contains.
C2_RateLimited429 ==
    AnsweredWith(429) => result = Failure("Rate limit exceeded (1800 requests/min)")

\* C3: with no Credential configured, a call of any of the fifteen operations
\* fails with the 'API key not configured' PreconditionError itself, and no
\* request is handed to the network.
C3_NoCredentialIsPrecondition ==
    (call.op \in Operations /\ ~isConfigured) =>
        /\ wire = <<>>
        /\ result = Failure("API key not configured. Run: journy config set --api-key YOUR_KEY")

\* The key k of object obj is present only because the argument arg was
\* supplied, and it carries that argument, which is not empty.
OnlyIfSupplied(obj, k, arg) ==
    k \in DOMAIN obj => (arg # Undefined /\ obj[k] = arg /\ Truthy(obj[k]))

\* The same for a properties / metadata mapping.
OnlyIfSuppliedMapping(obj, k, arg) ==
    k \in DOMAIN obj =>
        (arg # JUndefined /\ obj[k] = arg /\ obj[k].type # "null" /\ Len(obj[k].keys) > 0)

\* C4: the body of a mutating operation's request holds the key of an
\* optional argument only if that argument was supplied, never an empty or
\* null one; trackEvent(name, userId) yields exactly the keys name and userId.
C4_OnlySuppliedKeys ==
    wire # <<>> =>
        LET data == wire[1].data IN
        /\ call.op = "upsertUser" =>
            /\ OnlyIfSupplied(data.identification, "email", call.email)
            /\ OnlyIfSuppliedMapping(data, "properties", call.properties)
            /\ DOMAIN data \subseteq {"identification", "properties"}
            /\ DOMAIN data.identification \subseteq {"userId", "email"}
        /\ call.op = "upsertAccount" =>
            /\ OnlyIfSupplied(data.identification, "domain", call.domain)
            /\ OnlyIfSuppliedMapping(data, "properties", call.properties)
            /\ DOMAIN data \subseteq {"identification", "properties"}
            /\ DOMAIN data.identification \subseteq {"accountId", "domain"}
        /\ call.op = "deleteUser" =>
            /\ OnlyIfSupplied(data.identification, "userId", call.userId)
            /\ OnlyIfSupplied(data.identification, "email", call.email)
            /\ DOMAIN data = {"identification"}
            /\ DOMAIN data.identification \subseteq {"userId", "email"}
        /\ call.op = "deleteAccount" =>
            /\ OnlyIfSupplied(data.identification, "accountId", call.accountId)
            /\ OnlyIfSupplied(data.identification, "domain", call.domain)
            /\ DOMAIN data = {"identification"}
            /\ DOMAIN data.identification \subseteq {"accountId", "domain"}
        /\ call.op = "trackEvent" =>
            /\ OnlyIfSupplied(data, "userId", call.userId)
            /\ OnlyIfSupplied(data, "accountId", call.accountId)
            /\ OnlyIfSuppliedMapping(data, "metadata", call.properties)
            /\ DOMAIN data \subseteq {"name", "userId", "accountId", "metadata"}
            /\ (Truthy(call.userId) /\ call.accountId = Undefined
                    /\ call.properties = JUndefined) =>
                data = [name |-> call.eventName, userId |-> call.userId]

\* trackEvent("signed_in", "u1") was dispatched with the keys name and userId.
C4_Witness ==
    /\ wire # <<>>
    /\ call.op = "trackEvent"
    /\ call.userId = "u1"
    /\ call.accountId = Undefined
    /\ call.properties = JUndefined
    /\ DOMAIN wire[1].data = {"name", "userId"}

\* The commands that take --properties or --metadata.
TakesProperties == {"user upsert", "account upsert", "event track"}

\* The message of parseProperties' error, which shows the expected shape.
JsonShapeMessage ==
    "Properties must be valid JSON. Example: '{\"name\":\"John\",\"plan\":\"Pro\"}'"

\* The run was given --properties / --metadata with a text that is not JSON.
GivenMalformedJson ==
    /\ cmd.name \in TakesProperties
    /\ cmd.properties # Undefined
    /\ JSONParse(cmd.properties).threw

\* The run passes the checks its handler makes before parsing the JSON: a
\* Credential is configured and, for event track, an identifier is given.
PassesEarlierChecks ==
    /\ isConfigured
    /\ cmd.name = "event track" => (Truthy(cmd.userId) \/ Truthy(cmd.accountId))

\* C5 as stated (read in its favour: for a run that passes the handler's
\* earlier checks): a malformed JSON string yields the error that states the
\* expected JSON shape, a non-zero exit and zero network requests.
C5_MalformedJsonAlwaysReported ==
    (GivenMalformedJson /\ PassesEarlierChecks /\ pc = "done") =>
        /\ stderr = <<JsonShapeMessage>>
        /\ exitCode # 0
        /\ wire = <<>>

\* C5, amended: a non-empty malformed JSON string ends the command with a
\* non-zero exit before any Mediator call and with zero network requests; the
\* error reported is the one stating the expected JSON shape whenever a
\* Credential is configured and, for event track, a user or account id is
\* given.
C5_MalformedJsonRejected ==
    (GivenMalformedJson /\ cmd.properties # "") =>
        /\ pc = "done"
        /\ exitCode # 0
        /\ call = NoCall
        /\ wire = <<>>
        /\ PassesEarlierChecks => stderr = <<JsonShapeMessage>>

\* event track --metadata '{bad' ended with the JSON shape error.
C5_Witness ==
    /\ pc = "done"
    /\ cmd.name = "event track"
    /\ cmd.properties = "{bad"
    /\ stderr = <<JsonShapeMessage>>
    /\ exitCode = 1
    /\ wire = <<>>

\* The requests of the current run that carry a users list.
UsersRequests ==
    {i \in 1..Len(wire) : "data" \in DOMAIN wire[i] /\ "users" \in DOMAIN wire[i].data}

\* C6: account add-users / remove-users with exactly 100 user ids is accepted
\* and dispatched (a Credential being configured); with 101 or more ids the
\* command exits non-zero before the Mediator is called; no request with more
\* than 100 users is dispatched.
C6_AtMost100Users ==
    /\ cmd.name \in {"account add-users", "account remove-users"} =>
        /\ Len(cmd.userIds) >= 101 =>
            /\ pc = "done"
            /\ exitCode # 0
            /\ call = NoCall
            /\ wire = <<>>
        /\ (Len(cmd.userIds) = 100 /\ isConfigured) =>
            /\ call.op = (IF cmd.name = "account add-users"
                          THEN "addUsersToAccount" ELSE "removeUsersFromAccount")
            /\ call.userIds = cmd.userIds
            /\ Len(wire) = 1
            /\ Len(wire[1].data.users) = 100
    /\ \A i \in UsersRequests : Len(wire[i].data.users) <= 100

\* account add-users with 100 ids was dispatched and ended with status zero.
C6_Witness ==
    /\ pc = "done"
    /\ cmd.name = "account add-users"
    /\ Len(cmd.userIds) = 100
    /\ exitCode = 0
    /\ Len(wire) = 1
    /\ Len(wire[1].data.users) = 100

\* C7: no DELETE request reaches the network with an empty identification.
C7_DeleteHasIdentification ==
    \A i \in 1..Len(wire) :
        wire[i].method = "DELETE" => wire[i].data.identification # EmptyObject

\* C8: event track with neither --user-id nor --account-id exits non-zero
\* before trackEvent is called; a dispatched track request carries at least
\* one of userId and accountId, and exactly those the command line gave
\* (an empty option counts as not given, as in the handler's own check).
C8_TrackNeedsIdentifier ==
    cmd.name = "event track" =>
        /\ (~Truthy(cmd.userId) /\ ~Truthy(cmd.accountId)) =>
            /\ pc = "done"
            /\ exitCode # 0
            /\ call = NoCall
            /\ wire = <<>>
        /\ wire # <<>> =>
            LET data == wire[1].data IN
            /\ "userId" \in DOMAIN data \/ "accountId" \in DOMAIN data
            /\ "userId" \in DOMAIN data <=> Truthy(cmd.userId)
            /\ "accountId" \in DOMAIN data <=> Truthy(cmd.accountId)
            /\ "userId" \in DOMAIN data => data.userId = cmd.userId
            /\ "accountId" \in DOMAIN data => data.accountId = cmd.accountId

\* event track with a Credential and no identifier was rejected by the caller.
C8_Witness ==
    /\ pc = "done"
    /\ cmd.name = "event track"
    /\ isConfigured
    /\ ~Truthy(cmd.userId)
    /\ ~Truthy(cmd.accountId)
    /\ exitCode = 1
    /\ stderr = <<"Either --user-id or --account-id (or both) must be provided">>
    /\ wire = <<>>

\* The README's API Reference: the endpoint each operation wraps.
ReadmeEndpoint(op) ==
    CASE op = "upsertUser" -> <<"POST", "/users/upsert">>
      [] op = "deleteUser" -> <<"DELETE", "/users">>
      [] op = "upsertAccount" -> <<"POST", "/accounts/upsert">>
      [] op = "deleteAccount" -> <<"DELETE", "/accounts">>
      [] op = "addUsersToAccount" -> <<"POST", "/accounts/users/add">>
      [] op = "removeUsersFromAccount" -> <<"POST", "/accounts/users/remove">>
      [] op = "trackEvent" -> <<"POST", "/track">>
      [] op = "getEvents" -> <<"GET", "/events">>
      [] op = "getUserProperties" -> <<"GET", "/properties/users">>
      [] op = "getAccountProperties" -> <<"GET", "/properties/accounts">>
      [] op = "getUserSegments" -> <<"GET", "/segments/users">>
      [] op = "getAccountSegments" -> <<"GET", "/segments/accounts">>
      [] op = "linkUserToAccount" -> <<"POST", "/link">>
      [] op = "validateApiKey" -> <<"GET", "/validate">>
      [] op = "getTrackingSnippet" -> <<"GET", "/tracking/snippet">>

\* The verb of each group of operations.
VerbOf(op) ==
    IF op \in ListOperations \cup {"validateApiKey", "getTrackingSnippet"} THEN "GET"
    ELSE IF op \in {"deleteUser", "deleteAccount"} THEN "DELETE"
    ELSE "POST"

\* C9: whatever its arguments, an operation's request uses the one (method,
\* path) pair the README lists for it: GET for the seven reads, DELETE for
\* the two deletes, POST for the rest.
C9_FixedEndpoint ==
    \A i \in 1..Len(wire) :
        /\ wire[i].method = ReadmeEndpoint(call.op)[1]
        /\ wire[i].url = "https://api.journy.io" \o ReadmeEndpoint(call.op)[2]
        /\ wire[i].method = VerbOf(call.op)

\* deleteAccount was dispatched as DELETE /accounts.
C9_Witness ==
    /\ Len(wire) = 1
    /\ call.op = "deleteAccount"
    /\ wire[1].method = "DELETE"
    /\ wire[1].url = "https://api.journy.io/accounts"

\* The commands whose handler calls the Mediator.
MediatorCommands ==
    {"user upsert", "user delete", "account upsert", "account delete",
     "account add-users", "account remove-users", "event track", "event list",
     "properties users", "properties accounts", "segments users",
     "segments accounts", "link", "validate", "snippet"}

\* C10: a command that calls the Mediator ends non-zero with the error
\* message reported when its outcome is a failure (of a precondition, or of
\* the Mediator call), and ends with status zero after rendering (JSON with
\* --json, formatted text without) when the outcome is a success; no failure
\* ends with status zero.
C10_ExitStatus ==
    (pc = "done" /\ cmd.name \in MediatorCommands) =>
        /\ result.kind = "failure" =>
            (exitCode # 0 /\ stderr = <<result.message>> /\ stdout = NoOutput)
        /\ result.kind = "none" => (exitCode # 0 /\ Len(stderr) = 1)
        /\ result.kind = "success" =>
            /\ exitCode = 0
            /\ stderr = <<>>
            /\ stdout.kind = (IF cmd.json THEN "json" ELSE "text")
            /\ cmd.json => stdout.payload = result.data
        /\ exitCode = 0 => result.kind = "success"

\* A command run with --json ended non-zero on a failed Mediator call.
C10_Witness ==
    /\ pc = "done"
    /\ cmd.name = "validate"
    /\ cmd.json
    /\ result.kind = "failure"
    /\ exitCode = 1
    /\ stderr = <<result.message>>

\* C11: no operation retries: a run hands at most one request to the network,
\* whatever the outcome of the dispatch, and exactly one once it has
\* dispatched.
C11_AtMostOneRequest ==
    /\ Len(wire) <= 1
    /\ pc = "waiting" => Len(wire) = 1
    /\ reply.kind # "none" => Len(wire) = 1

\* A run whose request was answered with an error ended having sent one
\* request.
C11_Witness ==
    /\ pc = "done"
    /\ reply.kind = "error"
    /\ result.kind = "failure"
    /\ Len(wire) = 1

\* The request of the current run failed with no HTTP response.
TransportFailure ==
    /\ Settled
    /\ reply.kind = "error"
    /\ ~reply.error.hasResponse

\* The RequestFailedError form: 'Request failed: ' and the underlying message.
RequestFailedForm(error) == "Request failed: " \o error.message

\* C12 as stated: a transport failure is classified apart from
\* RequestFailedError, so its message is not of the RequestFailedError form.
C12_TransportDistinct ==
    TransportFailure => result.message # RequestFailedForm(reply.error)

\* C12, amended: a transport failure is reported as 'Request failed: ' followed
\* by the underlying cause, the same form as a non-2xx response that is not
\* 401, not 429 and carries no message; among settled requests that form is
\* used for these two cases only, which differ in the underlying message.
C12_RequestFailedForm ==
    (Settled /\ reply.kind = "error") =>
        LET error == reply.error
            generic == \/ ~error.hasResponse
                       \/ (error.status \notin {401, 429} /\ ~Truthy(error.bodyMessage))
        IN  /\ generic => result = Failure(RequestFailedForm(error))
            /\ ~generic => result.message # RequestFailedForm(error)
            /\ ~error.hasResponse => result.message = "Request failed: Network Error"

\* A transport failure was reported with its cause.
C12_Witness ==
    /\ TransportFailure
    /\ result = Failure("Request failed: Network Error")

\* C13: upsertUser(userId, email, properties) with a non-empty email and a
\* non-empty properties mapping sends a body of exactly two keys:
\* identification, holding exactly userId and email, and properties, holding
\* the mapping unchanged.
C13_UpsertUserBody ==
    (/\ wire # <<>>
     /\ call.op = "upsertUser"
     /\ call.userId # Undefined
     /\ Truthy(call.email)
     /\ call.properties.type = "object"
     /\ Len(call.properties.keys) > 0) =>
        wire[1].data =
            [identification |-> [userId |-> call.userId, email |-> call.email],
             properties |-> call.properties]

\* upsertUser('u1', 'a@b.com', {plan: 'Pro'}) was dispatched with that body.
C13_Witness ==
    /\ wire # <<>>
    /\ call.op = "upsertUser"
    /\ call.userId = "u1"
    /\ call.email = "a@b.com"
    /\ call.properties = JValue("object", <<"plan">>, "{\"plan\":\"Pro\"}")
    /\ DOMAIN wire[1].data = {"identification", "properties"}
    /\ DOMAIN wire[1].data.identification = {"userId", "email"}

\* C14: every dispatched request carries the configured Credential in the
\* X-Api-Key header and the Content-Type application/json header; the
\* credential header is never missing or empty.
C14_CredentialHeader ==
    \A i \in 1..Len(wire) :
        /\ DOMAIN wire[i].headers = {"X-Api-Key", "Content-Type"}
        /\ wire[i].headers["X-Api-Key"] = store.apiKey
        /\ Truthy(wire[i].headers["X-Api-Key"])
        /\ wire[i].headers["Content-Type"] = "application/json"

\* A request was dispatched with the configured key.
C14_Witness ==
    /\ Len(wire) = 1
    /\ wire[1].headers["X-Api-Key"] = "key-1"
    /\ store.apiKey = "key-1"

\* The leaf commands of the program.
LeafCommands == MediatorCommands \cup {"config set", "config show"}

\* C15: every leaf command, config set and config show included, accepts
\* --json, and with it prints the raw payload as JSON instead of formatted
\* text.
C15_EveryCommandTakesJson ==
    (pc = "done" /\ cmd.name \in LeafCommands /\ cmd.json) =>
        /\ stderr # <<"error: unknown option '--json'">>
        /\ exitCode = 0 => stdout.kind = "json"

\* C16: the Configuration Store changes only in a step of config set given a
\* non-empty --api-key, which stores that key; no other step of any run, a
\* failing one included, writes it, and config set without --api-key leaves
\* it unchanged.
C16_OnlyConfigSetWrites ==
    [][\/ store' = store
       \/ /\ cmd'.name = "config set"
          /\ Truthy(cmd'.apiKey)
          /\ store' = [apiKey |-> cmd'.apiKey]]_vars

\* A command whose Mediator call failed ended with the key still stored.
C16_Witness ==
    /\ pc = "done"
    /\ cmd.name \in MediatorCommands
    /\ wire # <<>>
    /\ result.kind = "failure"
    /\ exitCode = 1
    /\ store.apiKey = "key-2"

\* The messages of the precondition checks other than the credential check.
PreconditionMessages ==
    {"Maximum 100 users can be added at once",
     "Maximum 100 users can be removed at once",
     "Either --user-id or --account-id (or both) must be provided",
     JsonShapeMessage}

\* C17: a command that calls the Mediator, run with no Credential configured,
\* ends with status 1 and the credential message whatever its other
\* arguments are, without a call or a request; the list-length, identifier
\* and JSON errors are reported only when a Credential is configured.
C17_CredentialCheckFirst ==
    /\ (pc # "idle" /\ cmd.name \in MediatorCommands /\ ~isConfigured) =>
          /\ pc = "done"
          /\ exitCode = 1
          /\ stderr = <<"API key not configured.">>
          /\ call = NoCall
          /\ wire = <<>>
    /\ (pc = "done" /\ cmd.name \in MediatorCommands /\ stderr # <<>>
          /\ stderr[1] \in PreconditionMessages) => isConfigured

\* event track without a Credential, without an identifier and with
\* malformed --metadata ended with the credential message.
C17_Witness ==
    /\ pc = "done"
    /\ cmd.name = "event track"
    /\ ~isConfigured
    /\ missingIdentifier(cmd.userId, cmd.accountId)
    /\ parseProperties(cmd.properties).threw
    /\ stderr = <<"API key not configured.">>
    /\ exitCode = 1

\* The operations whose request body may hold properties or metadata.
PropertyOperations == {"upsertUser", "upsertAccount", "trackEvent"}

\* C18: a properties or metadata value in a dispatched request body is a
\* non-empty mapping; a --properties / --metadata text that is JSON but not
\* an object is never sent as that field.
C18_ForwardedIsMapping ==
    (wire # <<>> /\ call.op \in PropertyOperations) =>
        \A k \in {"properties", "metadata"} \cap DOMAIN wire[1].data :
            /\ wire[1].data[k].type = "object"
            /\ Len(wire[1].data[k].keys) > 0

====
